---- MODULE Spec2Model ----
(***************************************************************************)
(* Vote ledger and score maintenance of the online forum.                  *)
(*                                                                         *)
(* The repository holds the backend as a requirements document             *)
(* (src/unnamed/part_002): the POST /api/posts/:id/vote business logic,    *)
(* the votes / posts tables with their constraints, and the                *)
(* update_post_vote_count trigger that maintains posts.vote_count.         *)
(* The vote_count lines of the endpoint's business logic are carried out   *)
(* by that trigger ("Trigger to update post.vote_count automatically"):    *)
(* every INSERT / DELETE / UPDATE of a votes row fires it once.            *)
(***************************************************************************)
EXTENDS Integers, FiniteSets, Sequences, TLC

\* ------------------------------------------------------------------ bounds
NumUsers == 2
NumPosts == 2
NumProcs == 2

Users == 1..NumUsers
PostIds == 1..NumPosts
Procs == 1..NumProcs
\* An actor without a valid bearer token.
Anonymous == 0
Actors == Users \cup {Anonymous}
\* Values a client may put in the request body {"vote": n}; the documented
\* ones are 1, -1 and 0, and 2 stands for any other number.
RequestValues == {-1, 0, 1, 2}
\* The documented vote values: 1 upvote, -1 downvote, 0 remove vote.
AcceptedValues == {-1, 0, 1}
\* "no stored row" as seen by the endpoint when it looks up the user's vote.
NoVote == 0
\* SQL NULL in a user reference, and the value of a column of an id with no row.
Null == 0
\* The first rows of the topics seed data, and a request's unknown topic id.
Topics == {"General", "Technology"}
NoTopic == ""
\* Texts a client sends as a post's title and content: two that pass the
\* length checks, and the empty text, which does not.
Contents == {"original text", "edited text"}
NoContent == ""
\* Report reasons a client sends: two of the enum, and one outside it.
Reasons == {"spam", "other"}
RequestReasons == Reasons \cup {"boring"}
\* The number of requests and statements that change a table in the runs of
\* the forum as a whole.
MaxChanges == 3
\* Readings of the server's clock (CURRENT_TIMESTAMP), counted in half hours:
\* a start, half an hour later, and 48 hours after the start.
Times == {0, 1, 96}
\* Values of posts.vote_count the feed is computed from.
Scores == {-2, 0, 10, 12}
\* The values of the query parameter `sort`.
Sorts == {"hot", "new", "top"}

\* ------------------------------------------------------------------- state
VARIABLES
    posts,       \* ids of the rows of table posts
    vote_count,  \* posts.vote_count, by post id (0 for an id with no row)
    votes,       \* rows of table votes: [user_id, post_id, vote_type]
    txn,         \* the request each server process serves, how far, its answer
    users,       \* ids of the rows of table users
    topics,      \* ids of the rows of table topics
    owner,       \* posts.user_id, by post id (Null for an id with no row)
    topic_id,    \* posts.topic_id, by post id
    content,     \* posts.title and posts.content, by post id
    reports,     \* rows of table reports: [id, reporter_id, post_id]
    changes,     \* how many requests and statements have changed a table
    created_at,  \* posts.created_at, by post id
    now,         \* the server's clock
    feed,        \* the last response of GET /api/posts: sort, post ids in order,
                 \* and the clock reading it was computed at
    updated_at,  \* posts.updated_at, by post id
    user_vote,   \* VoteButtons prop user_vote, by browser tab and post
    button_count,\* VoteButtons prop vote_count, by browser tab and post
    token,       \* localStorage item 'token'
    user,        \* AuthProvider state `user`
    loading,     \* AuthProvider state `loading`
    me,          \* the mount-time fetch of /api/auth/me: how far, its body
    query,       \* SearchBar state `query`, a sequence of characters
    timer,       \* the pending timeouts of the SearchBar effect: for each the
                 \* milliseconds left and the query its closure holds
    idle,        \* milliseconds since `query` last changed, up to the delay
    route,       \* the URLs given to router.push, in order
    pager        \* a client that reads the feed page by page: sort, limit,
                 \* next offset, ids received so far, last has_more and total

\* The columns and tables the vote endpoint neither reads nor writes.
\* The column the runs of the edit trigger follow, and the state of the
\* browser.
buttonVars == <<user_vote, button_count>>
authVars == <<token, user, loading, me>>
searchVars == <<query, timer, idle, route>>
browserVars == <<buttonVars, authVars, searchVars, pager>>
clientVars == <<updated_at, browserVars>>

forumVars ==
    <<users, topics, owner, topic_id, content, reports, changes, created_at, now, feed,
      clientVars>>

vars == <<posts, vote_count, votes, txn, forumVars>>

\* --------------------------------------------------------- table votes
VoteRow(u, p, v) == [user_id |-> u, post_id |-> p, vote_type |-> v]

\* Rows of `vs` of user u on post p.
RowsOf(vs, u, p) == {r \in vs : r.user_id = u /\ r.post_id = p}

\* Rows of `vs` that reference post p.
RowsOfPost(vs, p) == {r \in vs : r.post_id = p}

\* Faulty variant: the column carries no CHECK constraint.
CheckVoteType_Missing(v) == TRUE

\* Faulty variant: the check only refuses a stored zero.
CheckVoteType_NonZero(v) == v # 0

\* CHECK (vote_type IN (-1, 1))
CheckVoteType(v) == v \in {-1, 1}

\* Faulty variant: the table has no unique constraint.
UniqueUserPostVote_Missing(vs, u, p) == TRUE

\* CONSTRAINT unique_user_post_vote UNIQUE (user_id, post_id)
UniqueUserPostVote(vs, u, p) == RowsOf(vs, u, p) = {}

\* Faulty variant: post_id is not declared a foreign key.
PostForeignKey_Missing(ps, p) == TRUE

\* post_id UUID NOT NULL REFERENCES posts(id)
PostForeignKey(ps, p) == p \in ps

\* The value the endpoint finds as the user's existing vote (NoVote: none).
ExistingVote(vs, u, p) ==
    LET mine == RowsOf(vs, u, p)
    IN IF mine = {} THEN NoVote ELSE (CHOOSE r \in mine : TRUE).vote_type

\* Sum of vote_type over a set of rows.
RECURSIVE SumRows(_)
SumRows(rows) ==
    IF rows = {} THEN 0
    ELSE LET r == CHOOSE x \in rows : TRUE
         IN r.vote_type + SumRows(rows \ {r})

\* ------------------------------------------- trigger update_post_vote_count
\* Faulty variant: the UPDATE branch forgets to take OLD.vote_type off.
update_post_vote_count_KeepsOld(count, tgOp, oldType, newType) ==
    CASE tgOp = "INSERT" -> count + newType
      [] tgOp = "DELETE" -> count - oldType
      [] tgOp = "UPDATE" -> count + newType
      [] OTHER -> count

\* Faulty variant: the INSERT branch sets vote_count instead of adding to it.
update_post_vote_count_Sets(count, tgOp, oldType, newType) ==
    CASE tgOp = "INSERT" -> newType
      [] tgOp = "DELETE" -> count - oldType
      [] tgOp = "UPDATE" -> count - oldType + newType
      [] OTHER -> count

\* The new posts.vote_count of the post, given the trigger operation and the
\* OLD and NEW row values (0 where the operation has none).
update_post_vote_count(count, tgOp, oldType, newType) ==
    CASE tgOp = "INSERT" -> count + newType
      [] tgOp = "DELETE" -> count - oldType
      [] tgOp = "UPDATE" -> count - oldType + newType
      [] OTHER -> count

\* UPDATE posts SET vote_count = ... WHERE id = p: no row, no change.
FireTrigger(ps, vc, p, tgOp, oldType, newType) ==
    IF p \in ps
    THEN [vc EXCEPT ![p] = update_post_vote_count(vc[p], tgOp, oldType, newType)]
    ELSE vc

\* ------------------------------------------------------ statements on votes
\* Each statement returns whether it succeeded, the rows of votes after it,
\* and the trigger call it raises (tgOp "NONE": no row touched, no trigger).
\* A statement that violates a constraint fails as a whole and changes nothing.
Failed(vs, why) ==
    [ok |-> FALSE, why |-> why, votes |-> vs, tgOp |-> "NONE", old |-> 0, new |-> 0]
Done(vs, tgOp, old, new) ==
    [ok |-> TRUE, why |-> "", votes |-> vs, tgOp |-> tgOp, old |-> old, new |-> new]

InsertVote(ps, vs, u, p, v) ==
    IF ~PostForeignKey(ps, p) THEN Failed(vs, "FOREIGN_KEY")
    ELSE IF ~CheckVoteType(v) THEN Failed(vs, "CHECK")
    ELSE IF ~UniqueUserPostVote(vs, u, p) THEN Failed(vs, "UNIQUE")
    ELSE Done(vs \cup {VoteRow(u, p, v)}, "INSERT", 0, v)

\* Faulty variant: vote_delete is not installed, the DELETE raises no trigger.
DeleteVote_NoTrigger(vs, u, p) == Done(vs \ RowsOf(vs, u, p), "NONE", 0, 0)

\* DELETE FROM votes WHERE user_id = u AND post_id = p; the trigger fires
\* FOR EACH ROW deleted.
DeleteVote(vs, u, p) ==
    LET old == RowsOf(vs, u, p)
    IN IF old = {} THEN Done(vs, "NONE", 0, 0)
       ELSE Done(vs \ old, "DELETE", SumRows(old), 0)

\* Faulty variant: a change of direction is stored as delete-and-insert and only the
\* vote_insert trigger fires.
UpdateVote_AsInsert(vs, u, p, v) ==
    LET old == RowsOf(vs, u, p)
    IN IF old = {} THEN Done(vs, "NONE", 0, 0)
       ELSE IF ~CheckVoteType(v) THEN Failed(vs, "CHECK")
       ELSE Done((vs \ old) \cup {VoteRow(u, p, v)}, "INSERT", 0, v)

\* UPDATE votes SET vote_type = v WHERE user_id = u AND post_id = p.
UpdateVote(vs, u, p, v) ==
    LET old == RowsOf(vs, u, p)
    IN IF old = {} THEN Done(vs, "NONE", 0, 0)
       ELSE IF ~CheckVoteType(v) THEN Failed(vs, "CHECK")
       ELSE Done((vs \ old) \cup {VoteRow(u, p, v)}, "UPDATE", SumRows(old), v)

\* ------------------------------------------------ POST /api/posts/:id/vote
\* The response code for a statement the database rejected.
ErrorCode(why) ==
    CASE why = "FOREIGN_KEY" -> "POST_NOT_FOUND"
      [] why = "CHECK" -> "INVALID_INPUT"
      [] OTHER -> "SERVER_ERROR"

\* Faulty variant: a repeated vote is kept (no toggle off).
VoteStatement_NoToggle(ps, vs, u, p, v, existing) ==
    IF existing = NoVote THEN InsertVote(ps, vs, u, p, v)
    ELSE IF v = existing THEN Done(vs, "NONE", 0, 0)
    ELSE IF v = 0 THEN DeleteVote(vs, u, p)
    ELSE UpdateVote(vs, u, p, v)

\* Faulty variant: a repeated vote goes to the last branch and is written again.
VoteStatement_Rewrites(ps, vs, u, p, v, existing) ==
    IF existing = NoVote THEN InsertVote(ps, vs, u, p, v)
    ELSE IF v = 0 THEN DeleteVote(vs, u, p)
    ELSE UpdateVote(vs, u, p, v)

\* The statement the business logic issues, given the existing vote it found.
VoteStatement(ps, vs, u, p, v, existing) ==
    IF existing = NoVote THEN InsertVote(ps, vs, u, p, v)
    ELSE IF v = existing THEN DeleteVote(vs, u, p)
    ELSE IF v = 0 THEN DeleteVote(vs, u, p)
    ELSE UpdateVote(vs, u, p, v)

\* posts.vote_count after the trigger call the statement raised.
AfterTrigger(ps, vc, p, st) ==
    IF st.tgOp = "NONE" THEN vc
    ELSE FireTrigger(ps, vc, p, st.tgOp, st.old, st.new)

\* One whole request on the tables (ps, vs, vc): the tables after it and the
\* response.
VoteEndpoint(ps, vs, vc, a, p, v) ==
    IF a = Anonymous
    THEN [votes |-> vs, vote_count |-> vc, code |-> "UNAUTHORIZED"]
    ELSE LET st == VoteStatement(ps, vs, a, p, v, ExistingVote(vs, a, p))
         IN [votes |-> st.votes, vote_count |-> AfterTrigger(ps, vc, p, st),
             code |-> IF st.ok THEN "OK" ELSE ErrorCode(st.why)]

\* Faulty variant: user_vote echoes the value of the request body.
VoteResponse_EchoesRequest(out, a, p, v) ==
    [vote_count |-> out.vote_count[p], user_vote |-> v]

\* The body of the success response (200) {"vote_count", "user_vote"}, read
\* from the tables `out` the request left: the post's vote_count column and
\* the user's vote (1 upvoted, -1 downvoted, 0 has not voted).
VoteResponse(out, a, p, v) ==
    [vote_count |-> out.vote_count[p], user_vote |-> ExistingVote(out.votes, a, p)]

\* --------------------------------------------------------------- actions
Idle == [pc |-> "idle", user |-> Anonymous, post |-> 0, vote |-> 0, existing |-> 0,
         tgOp |-> "NONE", old |-> 0, new |-> 0, count |-> 0, code |-> "NONE"]

\* The request has been answered with response code `code`.
Finished(code) == [Idle EXCEPT !.pc = "done", !.code = code]

\* No feed has been requested.
NoFeed == [sort |-> "none", ids |-> <<>>, at |-> 0]

\* posts.updated_at in the runs that do not follow it.
StampAside == updated_at = [p \in PostIds |-> 0]

\* The browser tabs of one signed-in user.
Tabs == {"this tab", "other tab"}

\* VoteButtons in the runs without a browser: nothing voted, nothing shown.
ButtonsAside ==
    /\ user_vote = [b \in Tabs |-> [p \in PostIds |-> NoVote]]
    /\ button_count = [b \in Tabs |-> [p \in PostIds |-> 0]]

\* JavaScript null as the value of `user`, and no item 'token' in localStorage.
JsNull == [null |-> TRUE]
NoToken == [user |-> Anonymous, issued |-> "never"]
\* The token a login issued to account u: in this visit of the site, in an
\* earlier visit, or more than the 7 days of its expiry ago.
TokenOf(u, visit) == [user |-> u, issued |-> visit]
\* The mount-time effect has not run.
NotMounted == [pc |-> "start", body |-> "none", token |-> NoToken]

\* AuthProvider in the runs without a browser: as constructed, never mounted.
AuthAside ==
    /\ token = NoToken
    /\ user = JsNull
    /\ loading = TRUE
    /\ me = NotMounted

\* No timeout is pending.
NoTimer == {}

\* SearchBar in the runs without a browser: never rendered.
SearchAside ==
    /\ query = <<>>
    /\ timer = NoTimer
    /\ idle = 0
    /\ route = <<>>

\* No page of the feed has been requested.
NoPager == [sort |-> "none", limit |-> 0, offset |-> 0, ids |-> <<>>,
            has_more |-> TRUE, total |-> 0]
PagerAside == pager = NoPager

\* The runs of the server alone: no edit times, no browser.
ClientAside ==
    /\ StampAside
    /\ ButtonsAside
    /\ AuthAside
    /\ SearchAside
    /\ PagerAside

\* Creation times, clock and feed in the runs that request no feed.
ClockAside ==
    /\ created_at = [p \in PostIds |-> 0]
    /\ now = 0
    /\ feed = NoFeed

FeedAside ==
    /\ ClockAside
    /\ ClientAside

\* The state of the other tables in the runs of the vote endpoint alone: the
\* accounts and the seeded topics exist; authors, topics, texts and reports of
\* posts are left out.
TablesAside ==
    /\ users = Users
    /\ topics = Topics
    /\ owner = [p \in PostIds |-> Null]
    /\ topic_id = [p \in PostIds |-> NoTopic]
    /\ content = [p \in PostIds |-> NoContent]
    /\ reports = {}
    /\ changes = 0

ForumAside ==
    /\ TablesAside
    /\ FeedAside

Init ==
    /\ posts = {}
    /\ vote_count = [p \in PostIds |-> 0]
    /\ votes = {}
    /\ txn = [t \in Procs |-> Idle]
    /\ ForumAside

\* POST /api/posts: a new row of posts, vote_count DEFAULT 0.
CreatePost(p) ==
    /\ p \notin posts
    /\ posts' = posts \cup {p}
    /\ vote_count' = [vote_count EXCEPT ![p] = 0]
    /\ UNCHANGED <<votes, txn, forumVars>>

\* submitVote(a, p, v), served alone: the tables after it (a rejected request
\* leaves them as they are; its answer is VoteEndpoint(...).code).
SubmitVote(a, p, v) ==
    LET out == VoteEndpoint(posts, votes, vote_count, a, p, v)
    IN /\ votes' = out.votes
       /\ vote_count' = out.vote_count
       /\ UNCHANGED <<posts, txn, forumVars>>

Next ==
    \/ \E p \in PostIds : CreatePost(p)
    \/ \E a \in Actors, p \in PostIds, v \in RequestValues : SubmitVote(a, p, v)

Spec == Init /\ [][Next]_vars

\* ------------------------------------------- requests served concurrently
\* Each request runs in a transaction of its own (READ COMMITTED): it looks
\* up the user's vote, issues its statement on votes, the AFTER ROW trigger
\* updates the posts row, and the transaction commits. Rows written are
\* locked until the commit, and visible to the others only after it.

\* Another transaction holds the lock of the votes row (or unique key) (u, p).
VoteRowLocked(t, u, p) ==
    \E s \in Procs \ {t} :
        /\ txn[s].pc \in {"written", "counted"}
        /\ txn[s].user = u /\ txn[s].post = p

\* Faulty variant: the trigger's UPDATE locks the posts table, not the row.
PostRowLocked_TableLock(t, p) ==
    \E s \in Procs \ {t} : txn[s].pc = "counted"

\* Faulty variant: the score is read and written back later without the row lock.
PostRowLocked_Never(t, p) == FALSE

\* Another transaction holds the lock of the posts row p (it updated
\* vote_count and has not committed).
PostRowLocked(t, p) ==
    \E s \in Procs \ {t} : txn[s].pc = "counted" /\ txn[s].post = p

\* The request arrives with a valid token and the endpoint looks up the
\* user's existing vote. Each process serves one request.
LookupVote(t, a, p, v) ==
    /\ txn[t].pc = "idle"
    /\ txn' = [txn EXCEPT ![t] = [Idle EXCEPT !.pc = "found", !.user = a, !.post = p,
                                   !.vote = v, !.existing = ExistingVote(votes, a, p)]]
    /\ UNCHANGED <<posts, vote_count, votes, forumVars>>

\* The INSERT / DELETE / UPDATE chosen from the vote found, on the rows as
\* committed by now. A rejected statement ends the request with its error; one
\* that touches no row ends it with no change.
WriteVote(t) ==
    LET r == txn[t]
        st == VoteStatement(posts, votes, r.user, r.post, r.vote, r.existing)
    IN /\ r.pc = "found"
       /\ ~VoteRowLocked(t, r.user, r.post)
       /\ txn' = [txn EXCEPT ![t] =
                    IF ~st.ok THEN Finished(ErrorCode(st.why))
                    ELSE IF st.tgOp = "NONE" THEN Finished("OK")
                    ELSE [r EXCEPT !.pc = "written", !.tgOp = st.tgOp,
                                   !.old = st.old, !.new = st.new]]
       /\ UNCHANGED <<posts, vote_count, votes, forumVars>>

\* The trigger's UPDATE posts SET vote_count = vote_count ... : it waits for
\* the row lock, then computes from the committed vote_count.
TriggerUpdate(t) ==
    LET r == txn[t]
    IN /\ r.pc = "written"
       /\ ~PostRowLocked(t, r.post)
       /\ txn' = [txn EXCEPT ![t] = [r EXCEPT !.pc = "counted",
                     !.count = update_post_vote_count(vote_count[r.post], r.tgOp, r.old, r.new)]]
       /\ UNCHANGED <<posts, vote_count, votes, forumVars>>

\* COMMIT: the row written and the new vote_count become visible together.
Commit(t) ==
    LET r == txn[t]
        mine == RowsOf(votes, r.user, r.post)
    IN /\ r.pc = "counted"
       /\ votes' = CASE r.tgOp = "INSERT" -> votes \cup {VoteRow(r.user, r.post, r.new)}
                     [] r.tgOp = "DELETE" -> votes \ mine
                     [] OTHER -> (votes \ mine) \cup {VoteRow(r.user, r.post, r.new)}
       /\ vote_count' = [vote_count EXCEPT ![r.post] = r.count]
       /\ txn' = [txn EXCEPT ![t] = Finished("OK")]
       /\ UNCHANGED <<posts, forumVars>>

\* Faulty variant: the row write is not undone with the transaction (the
\* statement and its trigger do not run as one unit).
Rollback_KeepsRow(vs, vc, r) ==
    LET mine == RowsOf(vs, r.user, r.post)
    IN [votes |-> CASE r.tgOp = "INSERT" -> vs \cup {VoteRow(r.user, r.post, r.new)}
                    [] r.tgOp = "DELETE" -> vs \ mine
                    [] r.tgOp = "UPDATE" -> (vs \ mine) \cup {VoteRow(r.user, r.post, r.new)}
                    [] OTHER -> vs,
        vote_count |-> vc]

\* The committed tables after the transaction with record r is rolled back:
\* neither its row write nor its trigger's update of vote_count remains.
Rollback(vs, vc, r) == [votes |-> vs, vote_count |-> vc]

\* The transaction fails after its row write, before or after the trigger's
\* update (connection lost, deadlock, statement error): the statement and the
\* trigger it fired are rolled back together, the request answers 500.
Abort(t) ==
    LET r == txn[t]
        back == Rollback(votes, vote_count, r)
    IN /\ r.pc \in {"written", "counted"}
       /\ votes' = back.votes
       /\ vote_count' = back.vote_count
       /\ txn' = [txn EXCEPT ![t] = [Idle EXCEPT !.pc = "aborted", !.code = "SERVER_ERROR"]]
       /\ UNCHANGED <<posts, forumVars>>

\* Concurrent requests start from any ledger that requests served one at a
\* time leave on one post: at most one row per user, vote_type 1 or -1, and
\* vote_count the sum of the rows.
LedgerOf(p, f) == {VoteRow(u, p, f[u]) : u \in {x \in Users : f[x] # NoVote}}

ConcInit ==
    /\ posts = {CHOOSE p \in PostIds : TRUE}
    /\ \E f \in [Users -> {-1, NoVote, 1}] :
          votes = LedgerOf(CHOOSE p \in PostIds : TRUE, f)
    /\ vote_count = [p \in PostIds |-> SumRows(RowsOfPost(votes, p))]
    /\ txn = [t \in Procs |-> Idle]
    /\ ForumAside

ConcNext ==
    \/ \E t \in Procs, a \in Users, p \in posts, v \in AcceptedValues : LookupVote(t, a, p, v)
    \/ \E t \in Procs : WriteVote(t)
    \/ \E t \in Procs : TriggerUpdate(t)
    \/ \E t \in Procs : Commit(t)
    \/ \E t \in Procs : Abort(t)

ConcSpec == ConcInit /\ [][ConcNext]_vars

\* ------------------------------------------------------ the forum's tables
\* All tables as one value, so that a request or statement is an operator
\* from the tables before it to the tables after it.
Db ==
    [users |-> users, topics |-> topics, posts |-> posts, owner |-> owner,
     topic_id |-> topic_id, content |-> content, votes |-> votes,
     vote_count |-> vote_count, reports |-> reports]

\* A response: the tables after the request and its code.
Answer(db, code) == [db |-> db, code |-> code]

\* A row of reports.
ReportRow(id, u, p) == [id |-> id, reporter_id |-> u, post_id |-> p]

\* gen_random_uuid() for a new report: an id no row of `rs` has. The id keeps
\* the user and the post of the submission, and a number that tells apart rows
\* of the same user and post.
NewReportId(rs, u, p) ==
    <<u, p, Cardinality({r \in rs : r.id[1] = u /\ r.id[2] = p})>>

\* Rows of `rs` with reporter_id u and post_id p.
ReportsOf(rs, u, p) == {r \in rs : r.reporter_id = u /\ r.post_id = p}

\* Faulty variant: votes.post_id is declared without ON DELETE CASCADE and the
\* vote rows of a deleted post stay.
VotesAfterPostDelete_NoCascade(vs, p) == vs

\* votes.post_id ... REFERENCES posts(id) ON DELETE CASCADE
VotesAfterPostDelete(vs, p) == vs \ RowsOfPost(vs, p)

\* reports.post_id ... REFERENCES posts(id) ON DELETE CASCADE
ReportsAfterPostDelete(rs, p) == {r \in rs : r.post_id # p}

\* DELETE FROM posts WHERE id = p, with its cascades. The vote_delete trigger
\* fires for each cascaded vote row and updates no row: the post is gone.
DeletePostRow(db, p) ==
    [db EXCEPT !.posts = @ \ {p},
               !.owner[p] = Null,
               !.topic_id[p] = NoTopic,
               !.content[p] = NoContent,
               !.vote_count[p] = 0,
               !.votes = VotesAfterPostDelete(@, p),
               !.reports = ReportsAfterPostDelete(@, p)]

RECURSIVE DeletePostRows(_, _)
DeletePostRows(db, ps) ==
    IF ps = {} THEN db
    ELSE LET p == CHOOSE x \in ps : TRUE
         IN DeletePostRows(DeletePostRow(db, p), ps \ {p})

\* votes.user_id ... REFERENCES users(id) ON DELETE CASCADE
VotesAfterUserDelete(vs, u) == {r \in vs : r.user_id # u}

\* Faulty variant: the cascade removes the user's vote rows without raising
\* the vote_delete trigger.
CountsAfterUserDelete_NoTrigger(ps, vs, vc, u) == vc

\* The vote_delete trigger, fired for each vote row of user u that the cascade
\* deletes.
CountsAfterUserDelete(ps, vs, vc, u) ==
    [p \in PostIds |->
        IF p \in ps /\ RowsOf(vs, u, p) # {}
        THEN update_post_vote_count(vc[p], "DELETE", SumRows(RowsOf(vs, u, p)), 0)
        ELSE vc[p]]

\* reports.reporter_id ... REFERENCES users(id) ON DELETE SET NULL
ReportsAfterUserDelete(rs, u) ==
    {IF r.reporter_id = u THEN [r EXCEPT !.reporter_id = Null] ELSE r : r \in rs}

\* DELETE FROM users WHERE id = u: the user's posts are deleted with their
\* cascades (posts.user_id ON DELETE CASCADE), then the user's votes on the
\* other posts, and the user's reports lose their reporter.
DeleteUserRow(db, u) ==
    LET mine == {p \in db.posts : db.owner[p] = u}
        rest == DeletePostRows(db, mine)
    IN [rest EXCEPT !.users = @ \ {u},
                    !.votes = VotesAfterUserDelete(@, u),
                    !.vote_count = CountsAfterUserDelete(rest.posts, rest.votes, @, u),
                    !.reports = ReportsAfterUserDelete(@, u)]

\* posts.topic_id UUID NOT NULL
TopicIdNotNull(t) == t # NoTopic

\* DELETE FROM topics WHERE id = t. ON DELETE SET NULL sets the topic_id of the
\* posts of the topic to NULL; a row that then violates NOT NULL makes the
\* statement fail as a whole.
DeleteTopicRow(db, t) ==
    LET detached ==
            [db EXCEPT !.topics = @ \ {t},
                       !.topic_id = [p \in PostIds |->
                                       IF p \in db.posts /\ @[p] = t THEN NoTopic ELSE @[p]]]
    IN IF \A p \in detached.posts : TopicIdNotNull(detached.topic_id[p])
       THEN [ok |-> TRUE, db |-> detached]
       ELSE [ok |-> FALSE, db |-> db]

\* ------------------------------------------------------- the forum's requests
\* title_length and content_length
ValidContent(c) == c \in Contents

\* gen_random_uuid() for a new post: an id no row of posts has.
NewPostId(db) == CHOOSE p \in PostIds \ db.posts : \A q \in PostIds \ db.posts : p <= q

\* The request carries a valid bearer token.
Authenticated(a) == a # Anonymous

\* Faulty variant: every authenticated user passes the owner check.
IsPostOwner_Anyone(db, a, p) == TRUE

\* "Must be post owner"
IsPostOwner(db, a, p) == db.owner[p] = a

\* POST /api/posts
CreatePostEndpoint(db, a, t, c) ==
    IF ~Authenticated(a) THEN Answer(db, "UNAUTHORIZED")
    ELSE IF t \notin db.topics THEN Answer(db, "INVALID_TOPIC")
    ELSE IF ~ValidContent(c) THEN Answer(db, "INVALID_TITLE")
    ELSE IF PostIds \ db.posts = {} THEN Answer(db, "SERVER_ERROR")
    ELSE LET p == NewPostId(db)
         IN Answer([db EXCEPT !.posts = @ \cup {p},
                              !.owner[p] = a,
                              !.topic_id[p] = t,
                              !.content[p] = c,
                              !.vote_count[p] = 0], "OK")

\* PUT /api/posts/:id
UpdatePostEndpoint(db, a, p, c) ==
    IF ~Authenticated(a) THEN Answer(db, "UNAUTHORIZED")
    ELSE IF p \notin db.posts THEN Answer(db, "POST_NOT_FOUND")
    ELSE IF ~IsPostOwner(db, a, p) THEN Answer(db, "FORBIDDEN")
    ELSE IF ~ValidContent(c) THEN Answer(db, "INVALID_TITLE")
    ELSE Answer([db EXCEPT !.content[p] = c], "OK")

\* DELETE /api/posts/:id
DeletePostEndpoint(db, a, p) ==
    IF ~Authenticated(a) THEN Answer(db, "UNAUTHORIZED")
    ELSE IF p \notin db.posts THEN Answer(db, "POST_NOT_FOUND")
    ELSE IF ~IsPostOwner(db, a, p) THEN Answer(db, "FORBIDDEN")
    ELSE Answer(DeletePostRow(db, p), "OK")

\* POST /api/posts/:id/vote on the forum's tables.
ForumVoteEndpoint(db, a, p, v) ==
    LET out == VoteEndpoint(db.posts, db.votes, db.vote_count, a, p, v)
    IN Answer([db EXCEPT !.votes = out.votes, !.vote_count = out.vote_count], out.code)

\* Faulty variant: the table has no unique constraint and the route does not look
\* for an earlier report.
UniqueUserPostReport_Missing(rs, u, p) == TRUE

\* CONSTRAINT unique_user_post_report UNIQUE (reporter_id, post_id)
UniqueUserPostReport(rs, u, p) == ReportsOf(rs, u, p) = {}

\* POST /api/posts/:id/report
ReportEndpoint(db, a, p, reason) ==
    IF ~Authenticated(a) THEN Answer(db, "UNAUTHORIZED")
    ELSE IF reason \notin Reasons THEN Answer(db, "INVALID_INPUT")
    ELSE IF p \notin db.posts THEN Answer(db, "POST_NOT_FOUND")
    ELSE IF ~UniqueUserPostReport(db.reports, a, p) THEN Answer(db, "DUPLICATE_REPORT")
    ELSE Answer([db EXCEPT !.reports =
                    @ \cup {ReportRow(NewReportId(db.reports, a, p), a, p)}], "OK")

\* ------------------------------------------------- the forum as a whole
\* The tables become `db`; a change of a table counts against MaxChanges.
Store(db) ==
    /\ db # Db => changes < MaxChanges
    /\ users' = db.users
    /\ topics' = db.topics
    /\ posts' = db.posts
    /\ owner' = db.owner
    /\ topic_id' = db.topic_id
    /\ content' = db.content
    /\ votes' = db.votes
    /\ vote_count' = db.vote_count
    /\ reports' = db.reports
    /\ changes' = IF db # Db THEN changes + 1 ELSE changes
    /\ UNCHANGED <<txn, created_at, now, feed, clientVars>>

\* Requests come from the accounts that exist and from visitors without one.
Callers == users \cup {Anonymous}

ForumInit ==
    /\ users = Users
    /\ topics = Topics
    /\ posts = {}
    /\ owner = [p \in PostIds |-> Null]
    /\ topic_id = [p \in PostIds |-> NoTopic]
    /\ content = [p \in PostIds |-> NoContent]
    /\ vote_count = [p \in PostIds |-> 0]
    /\ votes = {}
    /\ reports = {}
    /\ changes = 0
    /\ txn = [t \in Procs |-> Idle]
    /\ FeedAside

PostCreate(a, t, c) == Store(CreatePostEndpoint(Db, a, t, c).db)
PostUpdate(a, p, c) == Store(UpdatePostEndpoint(Db, a, p, c).db)
PostDelete(a, p) == Store(DeletePostEndpoint(Db, a, p).db)
PostVote(a, p, v) == Store(ForumVoteEndpoint(Db, a, p, v).db)
PostReport(a, p, reason) == Store(ReportEndpoint(Db, a, p, reason).db)
UserDelete(u) == u \in users /\ Store(DeleteUserRow(Db, u))
TopicDelete(t) == t \in topics /\ Store(DeleteTopicRow(Db, t).db)

ForumNext ==
    \/ \E a \in Callers, t \in Topics \cup {NoTopic} : PostCreate(a, t, "original text")
    \/ \E a \in Callers, p \in PostIds, c \in {"edited text", NoContent} : PostUpdate(a, p, c)
    \/ \E a \in Callers, p \in PostIds : PostDelete(a, p)
    \/ \E a \in Callers, p \in PostIds, v \in RequestValues : PostVote(a, p, v)
    \/ \E a \in Callers, p \in PostIds, reason \in RequestReasons : PostReport(a, p, reason)
    \/ \E u \in Users : UserDelete(u)
    \/ \E t \in Topics : TopicDelete(t)

ForumSpec == ForumInit /\ [][ForumNext]_vars

\* ------------------------------------------------------- GET /api/posts
\* Twice (hours_since_posted + 2) of a post created at `ca`, at clock reading
\* t: EXTRACT(EPOCH FROM (CURRENT_TIMESTAMP - created_at)) / 3600 + 2, a
\* fraction of hours, with times counted in half hours.
TwiceHoursPlusTwo_WholeHours(ca, t) == 2 * ((t - ca) \div 2) + 2 * 2

TwiceHoursPlusTwo(ca, t) == (t - ca) + 2 * 2

\* x * y^1.5 >= z * w^1.5 for positive y and w, decided on the squares.
TimesPower15GE(x, y, z, w) ==
    IF x >= 0 /\ z < 0 THEN TRUE
    ELSE IF x < 0 /\ z >= 0 THEN FALSE
    ELSE IF x >= 0 THEN x * x * y * y * y >= z * z * w * w * w
    ELSE x * x * y * y * y <= z * z * w * w * w

\* score(p) >= score(q) for score = vote_count / (hours_since_posted + 2)^1.5
HotScoreGE(ca, vc, t, p, q) ==
    TimesPower15GE(vc[p], TwiceHoursPlusTwo(ca[q], t), vc[q], TwiceHoursPlusTwo(ca[p], t))

\* Post p may stand before post q under ORDER BY <key of sort> DESC.
SortKeyGE(sort, ca, vc, t, p, q) ==
    CASE sort = "new" -> ca[p] >= ca[q]
      [] sort = "top" -> vc[p] >= vc[q]
      [] OTHER -> HotScoreGE(ca, vc, t, p, q)

\* The sequences that list each post of ps once.
Orderings(ps) ==
    {s \in [1..Cardinality(ps) -> ps] : \A i, j \in DOMAIN s : i # j => s[i] # s[j]}

\* The results ORDER BY ... DESC may give: every ordering of the rows in which
\* no row stands before a row of a greater key. Rows of equal key come in
\* any order: the query names no further sort column.
OrderBy(sort, ps, ca, vc, t) ==
    {s \in Orderings(ps) :
        \A i, j \in DOMAIN s : i < j => SortKeyGE(sort, ca, vc, t, s[i], s[j])}

\* A posts table the feed is computed from: any set of posts with creation
\* times and scores, and a clock not before the creations.
RankInit ==
    /\ posts \in SUBSET PostIds
    /\ created_at \in [PostIds -> Times]
    /\ vote_count \in [PostIds -> Scores]
    /\ \A p \in PostIds \ posts : created_at[p] = 0 /\ vote_count[p] = 0
    /\ now \in Times
    /\ \A p \in posts : created_at[p] <= now
    /\ feed = NoFeed
    /\ votes = {}
    /\ txn = [t \in Procs |-> Idle]
    /\ users = Users
    /\ topics = Topics
    /\ owner = [p \in PostIds |-> Null]
    /\ topic_id = [p \in PostIds |-> NoTopic]
    /\ content = [p \in PostIds |-> NoContent]
    /\ reports = {}
    /\ changes = 0
    /\ ClientAside

\* GET /api/posts?sort=...: the posts in the order of the sort, evaluated at
\* the server's clock. No table changes.
GetPosts(sort) ==
    /\ \E s \in OrderBy(sort, posts, created_at, vote_count, now) :
          feed' = [sort |-> sort, ids |-> s, at |-> now]
    /\ UNCHANGED <<posts, vote_count, votes, txn, users, topics, owner, topic_id,
                   content, reports, changes, created_at, now, clientVars>>

\* Time passes on the server.
Tick ==
    /\ \E t \in Times : t > now /\ now' = t
    /\ UNCHANGED <<posts, vote_count, votes, txn, users, topics, owner, topic_id,
                   content, reports, changes, created_at, feed, clientVars>>

RankNext ==
    \/ \E sort \in Sorts : GetPosts(sort)
    \/ Tick

RankSpec == RankInit /\ [][RankNext]_vars

\* ------------------------------- the business logic carried out line by line
\* The endpoint's own "Update post.vote_count" line, as the business logic
\* words it for the branch taken: (+1 or -1) with a new vote, (-1 or +1) on a
\* toggle-off, (opposite of existing) on a removal, (+2 or -2) on a change of
\* direction.
EndpointCountDelta(existing, v) ==
    IF existing = NoVote THEN v
    ELSE IF v = existing THEN -existing
    ELSE IF v = 0 THEN -existing
    ELSE 2 * v

\* One whole request when the endpoint carries out both lines of its branch
\* (the write of the vote, which fires the trigger, and then the update of
\* post.vote_count) on a database that has the vote triggers installed.
LiteralVoteEndpoint(ps, vs, vc, a, p, v) ==
    IF a = Anonymous
    THEN [votes |-> vs, vote_count |-> vc, code |-> "UNAUTHORIZED"]
    ELSE LET existing == ExistingVote(vs, a, p)
             st == VoteStatement(ps, vs, a, p, v, existing)
             triggered == AfterTrigger(ps, vc, p, st)
         IN IF ~st.ok
            THEN [votes |-> vs, vote_count |-> vc, code |-> ErrorCode(st.why)]
            ELSE [votes |-> st.votes,
                  vote_count |-> [triggered EXCEPT ![p] = @ + EndpointCountDelta(existing, v)],
                  code |-> "OK"]

LiteralSubmitVote(a, p, v) ==
    LET out == LiteralVoteEndpoint(posts, votes, vote_count, a, p, v)
    IN /\ votes' = out.votes
       /\ vote_count' = out.vote_count
       /\ UNCHANGED <<posts, txn, forumVars>>

LiteralNext ==
    \/ \E p \in PostIds : CreatePost(p)
    \/ \E a \in Actors, p \in PostIds, v \in RequestValues : LiteralSubmitVote(a, p, v)

LiteralSpec == Init /\ [][LiteralNext]_vars

\* ------------------------------ requests served concurrently on several posts
\* Concurrent requests on several posts start with every post created and
\* no vote cast yet.
ConcPostsInit ==
    /\ posts = PostIds
    /\ votes = {}
    /\ vote_count = [p \in PostIds |-> SumRows(RowsOfPost(votes, p))]
    /\ txn = [t \in Procs |-> Idle]
    /\ ForumAside

ConcPostsSpec == ConcPostsInit /\ [][ConcNext]_vars

\* ------------------------------------------------------ posts.updated_at
\* update_updated_at_column(), raised BEFORE UPDATE ON posts FOR EACH ROW by
\* trigger update_posts_updated_at: the row of post p under UPDATE gets
\* updated_at = CURRENT_TIMESTAMP, whichever column the UPDATE sets.
update_updated_at_column(ua, p, t) == [ua EXCEPT ![p] = t]

\* posts.updated_at after one vote request at clock reading t: a statement on
\* votes raises update_post_vote_count, whose UPDATE posts SET vote_count ...
\* WHERE id = p is an UPDATE of the row of p and raises update_posts_updated_at.
UpdatedAtAfterVote(ps, vs, ua, a, p, v, t) ==
    IF a = Anonymous THEN ua
    ELSE LET st == VoteStatement(ps, vs, a, p, v, ExistingVote(vs, a, p))
         IN IF st.ok /\ st.tgOp # "NONE" /\ p \in ps
            THEN update_updated_at_column(ua, p, t)
            ELSE ua

\* posts.updated_at after PUT /api/posts/:id at clock reading t: the accepted
\* request UPDATEs the row of p.
UpdatedAtAfterEdit(db, ua, a, p, c, t) ==
    IF UpdatePostEndpoint(db, a, p, c).code = "OK"
    THEN update_updated_at_column(ua, p, t)
    ELSE ua

\* The author of post p in the runs that follow updated_at.
AuthorOf(p) == ((p - 1) % NumUsers) + 1

\* Every post exists, written by its author at clock reading 0
\* (updated_at DEFAULT CURRENT_TIMESTAMP), with no votes.
StampInit ==
    /\ users = Users
    /\ topics = Topics
    /\ posts = PostIds
    /\ owner = [p \in PostIds |-> AuthorOf(p)]
    /\ topic_id = [p \in PostIds |-> "General"]
    /\ content = [p \in PostIds |-> "original text"]
    /\ vote_count = [p \in PostIds |-> 0]
    /\ votes = {}
    /\ reports = {}
    /\ changes = 0
    /\ txn = [t \in Procs |-> Idle]
    /\ created_at = [p \in PostIds |-> 0]
    /\ now = 0
    /\ feed = NoFeed
    /\ updated_at = [p \in PostIds |-> 0]
    /\ ButtonsAside
    /\ AuthAside
    /\ SearchAside
    /\ PagerAside

\* PUT /api/posts/:id with its trigger; an accepted request counts against
\* MaxChanges.
StampEdit(a, p, c) ==
    LET out == UpdatePostEndpoint(Db, a, p, c)
    IN /\ out.code = "OK" => changes < MaxChanges
       /\ content' = out.db.content
       /\ updated_at' = UpdatedAtAfterEdit(Db, updated_at, a, p, c, now)
       /\ changes' = IF out.code = "OK" THEN changes + 1 ELSE changes
       /\ UNCHANGED <<posts, vote_count, votes, txn, users, topics, owner, topic_id,
                      reports, created_at, now, feed, browserVars>>

\* POST /api/posts/:id/vote with its triggers; an accepted request counts
\* against MaxChanges.
StampVote(a, p, v) ==
    LET out == VoteEndpoint(posts, votes, vote_count, a, p, v)
    IN /\ out.code = "OK" => changes < MaxChanges
       /\ votes' = out.votes
       /\ vote_count' = out.vote_count
       /\ updated_at' = UpdatedAtAfterVote(posts, votes, updated_at, a, p, v, now)
       /\ changes' = IF out.code = "OK" THEN changes + 1 ELSE changes
       /\ UNCHANGED <<posts, txn, users, topics, owner, topic_id, content,
                      reports, created_at, now, feed, browserVars>>

StampNext ==
    \/ \E a \in Callers, p \in PostIds, c \in {"edited text", NoContent} : StampEdit(a, p, c)
    \/ \E a \in Callers, p \in PostIds, v \in RequestValues : StampVote(a, p, v)
    \/ Tick

StampSpec == StampInit /\ [][StampNext]_vars

\* ------------------------------------------------------------ VoteButtons
\* The signed-in user whose tabs are followed.
Viewer == CHOOSE u \in Users : TRUE

\* On upvote click: the vote the API call carries, given the prop user_vote.
UpvoteClick(uv) == IF uv = 1 THEN 0 ELSE 1

\* On downvote click: the vote the API call carries.
DownvoteClick(uv) == IF uv = -1 THEN 0 ELSE -1

\* Every post exists without votes, and every tab shows them so.
ButtonsInit ==
    /\ posts = PostIds
    /\ vote_count = [p \in PostIds |-> 0]
    /\ votes = {}
    /\ txn = [t \in Procs |-> Idle]
    /\ ForumAside

\* Tab b renders post p from GET /api/posts: vote_count and the user_vote of
\* the signed-in user, as the tables hold them at that moment.
LoadPost(b, p) ==
    /\ p \in posts
    /\ user_vote' = [user_vote EXCEPT ![b][p] = ExistingVote(votes, Viewer, p)]
    /\ button_count' = [button_count EXCEPT ![b][p] = vote_count[p]]
    /\ UNCHANGED <<posts, vote_count, votes, txn, users, topics, owner, topic_id,
                   content, reports, changes, created_at, now, feed, updated_at,
                   authVars, searchVars, pager>>

\* The API call of a click in tab b on post p with vote v, and on success the
\* update of the local state from the response.
ClickVote(b, p, v) ==
    LET out == VoteEndpoint(posts, votes, vote_count, Viewer, p, v)
        body == VoteResponse(out, Viewer, p, v)
    IN /\ votes' = out.votes
       /\ vote_count' = out.vote_count
       /\ updated_at' = UpdatedAtAfterVote(posts, votes, updated_at, Viewer, p, v, now)
       /\ user_vote' = IF out.code = "OK"
                       THEN [user_vote EXCEPT ![b][p] = body.user_vote]
                       ELSE user_vote
       /\ button_count' = IF out.code = "OK"
                          THEN [button_count EXCEPT ![b][p] = body.vote_count]
                          ELSE button_count
       /\ UNCHANGED <<posts, txn, users, topics, owner, topic_id, content, reports,
                      changes, created_at, now, feed, authVars, searchVars, pager>>

ClickUpvote(b, p) == ClickVote(b, p, UpvoteClick(user_vote[b][p]))
ClickDownvote(b, p) == ClickVote(b, p, DownvoteClick(user_vote[b][p]))

ButtonsNext ==
    \/ \E b \in Tabs, p \in PostIds : LoadPost(b, p)
    \/ \E b \in Tabs, p \in PostIds : ClickUpvote(b, p)
    \/ \E b \in Tabs, p \in PostIds : ClickDownvote(b, p)

ButtonsSpec == ButtonsInit /\ [][ButtonsNext]_vars

\* ----------------------------------------------------------- AuthProvider
\* The user object of account u: the body of a 200 of GET /api/auth/me and
\* the userData a login hands to login().
UserData(u) == [id |-> u]

\* The body of the 401 of GET /api/auth/me.
ErrorBody == [error |-> "Not authenticated", code |-> "UNAUTHORIZED"]

\* How the mount-time fetch can go: a 200 with the user, a 401 with the error
\* body, a response whose body is not JSON, no response at all.
Outcomes == {"ok", "unauthorized", "no json", "network error"}

\* The outcomes the fetch can have with token t: the server answers a token
\* within its expiry with 200 and an expired one with 401.
OutcomesOf(t) ==
    {body \in Outcomes :
        /\ body = "ok" => t.issued # "over 7 days ago"
        /\ body = "unauthorized" => t.issued = "over 7 days ago"}

\* Faulty variant: setLoading(false) is chained with .then and runs only when
\* the fetch and the parsing succeeded.
LoadingAfterFetch_ThenOnly(body, l) ==
    IF body \in {"no json", "network error"} THEN l ELSE FALSE

\* .finally(() => setLoading(false)): `loading` once the chain has settled on
\* outcome `body`.
LoadingAfterFetch(body, l) == FALSE

\* `user` once the chain has settled: .then(data => setUser(data)) runs with
\* whatever JSON the response carried, and is skipped on a rejection.
UserAfterFetch(body, t, u) ==
    CASE body = "ok" -> UserData(t.user)
      [] body = "unauthorized" -> ErrorBody
      [] OTHER -> u

\* The page is loaded: AuthProvider is constructed (user null, loading true)
\* and localStorage holds the token of an earlier visit, or none.
AuthInit ==
    /\ posts = {}
    /\ vote_count = [p \in PostIds |-> 0]
    /\ votes = {}
    /\ txn = [t \in Procs |-> Idle]
    /\ TablesAside
    /\ ClockAside
    /\ StampAside
    /\ ButtonsAside
    /\ SearchAside
    /\ PagerAside
    /\ token \in {NoToken} \cup {TokenOf(u, visit) : u \in Users,
                                                    visit \in {"earlier visit", "over 7 days ago"}}
    /\ user = JsNull
    /\ loading = TRUE
    /\ me = NotMounted

AuthFrame ==
    UNCHANGED <<posts, vote_count, votes, txn, users, topics, owner, topic_id,
                content, reports, changes, created_at, now, feed, updated_at,
                buttonVars, searchVars, pager>>

\* useEffect(..., []) after the first render: with a token the fetch starts,
\* without one loading becomes false.
Mount ==
    /\ me.pc = "start"
    /\ IF token # NoToken
       THEN /\ me' = [pc |-> "pending", body |-> "none", token |-> token]
            /\ loading' = loading
       ELSE /\ me' = [pc |-> "settled", body |-> "none", token |-> NoToken]
            /\ loading' = FALSE
    /\ UNCHANGED <<token, user>>
    /\ AuthFrame

\* The fetch settles: a response arrives and res.json() starts reading it, or
\* the fetch rejects and the chain runs its .finally.
Respond(body) ==
    /\ me.pc = "pending"
    /\ body \in OutcomesOf(me.token)
    /\ IF body = "network error"
       THEN /\ me' = [me EXCEPT !.pc = "settled", !.body = body]
            /\ loading' = LoadingAfterFetch(body, loading)
       ELSE /\ me' = [me EXCEPT !.pc = "parsing", !.body = body]
            /\ loading' = loading
    /\ UNCHANGED <<token, user>>
    /\ AuthFrame

\* res.json() settles: .then(data => setUser(data)) unless it rejected, then
\* .finally(() => setLoading(false)).
Parse ==
    /\ me.pc = "parsing"
    /\ me' = [me EXCEPT !.pc = "settled"]
    /\ user' = UserAfterFetch(me.body, me.token, user)
    /\ loading' = LoadingAfterFetch(me.body, loading)
    /\ UNCHANGED token
    /\ AuthFrame

\* login(token, userData), called by the login form of the mounted page.
Login(u) ==
    /\ me.pc # "start"
    /\ token' = TokenOf(u, "this visit")
    /\ user' = UserData(u)
    /\ UNCHANGED <<loading, me>>
    /\ AuthFrame

\* logout()
Logout ==
    /\ me.pc # "start"
    /\ token' = NoToken
    /\ user' = JsNull
    /\ UNCHANGED <<loading, me>>
    /\ AuthFrame

AuthNext ==
    \/ Mount
    \/ \E body \in Outcomes : Respond(body)
    \/ Parse
    \/ \E u \in Users : Login(u)
    \/ Logout

AuthSpec == AuthInit /\ [][AuthNext]_vars

\* The effect runs after the first render, a fetch settles, and so does the
\* reading of a response body.
AuthLiveSpec ==
    /\ AuthSpec
    /\ WF_vars(Mount)
    /\ WF_vars(\E body \in Outcomes : Respond(body))
    /\ WF_vars(Parse)

\* -------------------------------------------------------------- SearchBar
\* setTimeout(..., 300) and query.length >= 2
DebounceMs == 300
MinQueryLength == 2
\* The characters typed, the longest query typed, the navigations followed,
\* and the stretches of time between two events.
Chars == {"a", "b"}
MaxQueryLen == 2
MaxPushes == 2
Delays == {100, 200, 300}

\* `/search?q=${query}`
SearchUrl(q) == <<"/search?q=">> \o q

\* Faulty variant: the effect returns no cleanup and earlier timeouts stay.
Cleanup_Missing(ts) == ts

\* return () => clearTimeout(timer): the cleanup of the effect, run before
\* the effect runs again, clears the timeout the last run set.
Cleanup(ts) == {}

\* The effect, run after a render with a changed query q: the cleanup of the
\* last run, then setTimeout with a closure over q.
Effect(ts, q) == Cleanup(ts) \cup {[left |-> DebounceMs, q |-> q]}

\* SearchBar is rendered for the first time: query '' and the effect has run.
SearchInit ==
    /\ posts = {}
    /\ vote_count = [p \in PostIds |-> 0]
    /\ votes = {}
    /\ txn = [t \in Procs |-> Idle]
    /\ TablesAside
    /\ ClockAside
    /\ StampAside
    /\ ButtonsAside
    /\ AuthAside
    /\ PagerAside
    /\ query = <<>>
    /\ timer = Effect(NoTimer, <<>>)
    /\ idle = 0
    /\ route = <<>>

SearchFrame ==
    UNCHANGED <<posts, vote_count, votes, txn, users, topics, owner, topic_id,
                content, reports, changes, created_at, now, feed, updated_at,
                buttonVars, authVars, pager>>

\* setQuery(q) with a value that differs from the state: a render, then the
\* effect.
SetQuery(q) ==
    /\ q # query
    /\ Len(route) < MaxPushes
    /\ query' = q
    /\ timer' = Effect(timer, q)
    /\ idle' = 0
    /\ UNCHANGED route
    /\ SearchFrame

\* A key is pressed in the text input.
TypeChar(c) == Len(query) < MaxQueryLen /\ SetQuery(Append(query, c))
\* The last character is deleted.
Backspace == query # <<>> /\ SetQuery(SubSeq(query, 1, Len(query) - 1))
\* The clear button (X).
ClearQuery == SetQuery(<<>>)

\* d milliseconds pass without an event; no timeout is overdue.
Wait(d) ==
    /\ \A t \in timer : d <= t.left
    /\ timer' = {[t EXCEPT !.left = @ - d] : t \in timer}
    /\ idle' = IF idle + d > DebounceMs THEN DebounceMs ELSE idle + d
    /\ UNCHANGED <<query, route>>
    /\ SearchFrame

\* A timeout is due and its callback runs.
Fire(t) ==
    /\ t \in timer
    /\ t.left = 0
    /\ timer' = timer \ {t}
    /\ route' = IF Len(t.q) >= MinQueryLength
                THEN Append(route, SearchUrl(t.q))
                ELSE route
    /\ UNCHANGED <<query, idle>>
    /\ SearchFrame

SearchNext ==
    \/ \E c \in Chars : TypeChar(c)
    \/ Backspace
    \/ ClearQuery
    \/ \E d \in Delays : Wait(d)
    \/ \E t \in timer : Fire(t)

SearchSpec == SearchInit /\ [][SearchNext]_vars

\* ------------------------------------------------ GET /api/posts by pages
\* The values of the query parameter `limit` a client asks with.
Limits == {1, 2}

\* LIMIT limit OFFSET offset on the ordered rows s.
PageOf(s, limit, offset) ==
    SubSeq(s, offset + 1, IF offset + limit > Len(s) THEN Len(s) ELSE offset + limit)

\* has_more: more posts exist after the ones returned.
HasMore(offset, returned, total) == offset + returned < total

\* The responses GET /api/posts?sort=&limit=&offset= can give on the posts
\* `ps`: a page of any ordering the sort allows, with total and has_more.
GetPostsPages(sort, limit, offset, ps, ca, vc, t) ==
    {[posts |-> PageOf(s, limit, offset),
      total |-> Cardinality(ps),
      has_more |-> HasMore(offset, Len(PageOf(s, limit, offset)), Cardinality(ps))] :
        s \in OrderBy(sort, ps, ca, vc, t)}

\* A fixed posts table read at a fixed clock: every post exists, with any
\* creation times and scores.
PageInit ==
    /\ posts = PostIds
    /\ created_at \in [PostIds -> Times]
    /\ vote_count \in [PostIds -> Scores]
    /\ now = 96
    /\ feed = NoFeed
    /\ votes = {}
    /\ txn = [t \in Procs |-> Idle]
    /\ TablesAside
    /\ ClientAside

PageFrame ==
    UNCHANGED <<posts, vote_count, votes, txn, users, topics, owner, topic_id,
                content, reports, changes, created_at, now, feed, updated_at,
                buttonVars, authVars, searchVars>>

\* A client starts to read the feed in order `sort`, `limit` posts a page.
StartPaging(sort, limit) ==
    /\ pager = NoPager
    /\ pager' = [sort |-> sort, limit |-> limit, offset |-> 0, ids |-> <<>>,
                 has_more |-> TRUE, total |-> 0]
    /\ PageFrame

\* The client requests the page at its offset and moves on by `limit`.
FetchPage ==
    /\ pager.sort # "none"
    /\ pager.has_more
    /\ \E r \in GetPostsPages(pager.sort, pager.limit, pager.offset,
                              posts, created_at, vote_count, now) :
          pager' = [pager EXCEPT !.ids = @ \o r.posts,
                                 !.offset = @ + pager.limit,
                                 !.has_more = r.has_more,
                                 !.total = r.total]
    /\ PageFrame

PageNext ==
    \/ \E sort \in Sorts, limit \in Limits : StartPaging(sort, limit)
    \/ FetchPage

PageSpec == PageInit /\ [][PageNext]_vars

\* ------------------------------------------------------------- properties
\* The cumulative score of post p equals the sum of its live vote rows.
ScoreMatchesLedger(vs, vc, p) == vc[p] = SumRows(RowsOfPost(vs, p))

\* The tables after submitVote(a, p, v) on the current state, and after a
\* second call submitVote(b, q, w) that follows it.
After(a, p, v) == VoteEndpoint(posts, votes, vote_count, a, p, v)
AfterBoth(a, p, v, b, q, w) ==
    LET one == After(a, p, v)
    IN VoteEndpoint(posts, one.votes, one.vote_count, b, q, w)
SameTables(x, y) == x.votes = y.votes /\ x.vote_count = y.vote_count

TableEffect(out, a, p, r, prior) ==
    /\ \A q \in PostIds \ {p} : out.vote_count[q] = vote_count[q]
    /\ CASE prior = NoVote /\ r # 0 ->
              /\ out.votes = votes \cup {VoteRow(a, p, r)}
              /\ out.vote_count[p] = vote_count[p] + r
         [] prior = NoVote /\ r = 0 ->
              /\ out.votes = votes
              /\ out.vote_count[p] = vote_count[p]
         [] prior # NoVote /\ (r = prior \/ r = 0) ->
              /\ out.votes = votes \ {VoteRow(a, p, prior)}
              /\ out.vote_count[p] = vote_count[p] - prior
         [] OTHER ->
              /\ out.votes = (votes \ {VoteRow(a, p, prior)}) \cup {VoteRow(a, p, -prior)}
              /\ out.vote_count[p] = vote_count[p] - 2 * prior

C5_ReplaySameState ==
    \A a \in Actors, p \in PostIds, v \in AcceptedValues :
        SameTables(AfterBoth(a, p, v, a, p, v), After(a, p, v))

\* C5 amended: a replayed request leaves the state of the single request
\* exactly when the value is 0 or the request is rejected (no token, no such
\* post); a replayed +1 or -1 of a registered user on an existing post toggles
\* the vote, so the state after two calls differs from the state after one.
C5_ReplayOnlyOfZero ==
    \A a \in Actors, p \in PostIds, v \in AcceptedValues :
        SameTables(AfterBoth(a, p, v, a, p, v), After(a, p, v))
            <=> (v = 0 \/ a = Anonymous \/ p \notin posts)

\* C5 witness: a user holds a vote on a post another user has not voted on:
\* a replayed 0 deletes the row once, a replayed +1 toggles it off and on.
C5_Witness ==
    \E a \in Users, b \in Users, p \in posts :
          /\ ExistingVote(votes, a, p) = 1
          /\ ExistingVote(votes, b, p) = NoVote
          /\ SameTables(AfterBoth(a, p, 0, a, p, 0), After(a, p, 0))
          /\ After(a, p, 0).votes # votes
          /\ ~SameTables(AfterBoth(a, p, 1, a, p, 1), After(a, p, 1))

\* submitVote(a, p, v) then submitVote(a, p, w): the vote of a on p and the
\* score of p after the first and after the second call.
ScoreAfter1(a, p, v) == After(a, p, v).vote_count[p]
ScoreAfter2(a, p, v, w) == AfterBoth(a, p, v, a, p, w).vote_count[p]
VoteAfter2(a, p, v, w) == ExistingVote(AfterBoth(a, p, v, a, p, w).votes, a, p)

C8_DifferentActorsCommute ==
    /\ \A p \in posts :
          LET first == [a \in Users, v \in AcceptedValues |-> After(a, p, v)]
              Then(one, b, w) == VoteEndpoint(posts, one.votes, one.vote_count, b, p, w)
          IN \A a \in Users, b \in Users, v \in AcceptedValues, w \in AcceptedValues :
                a < b => SameTables(Then(first[a, v], b, w), Then(first[b, w], a, v))
    /\ \A a \in Actors, p \in PostIds, v \in RequestValues :
          LET one == After(a, p, v)
          IN \A r \in (one.votes \ votes) \cup (votes \ one.votes) : r.user_id = a
    /\ \A a \in Users, b \in Users, p \in posts :
          (a # b /\ RowsOfPost(votes, p) = {}) =>
              LET ab == AfterBoth(a, p, 1, b, p, -1)
                  ba == AfterBoth(b, p, -1, a, p, 1)
              IN /\ ab.vote_count[p] = 0 /\ ba.vote_count[p] = 0
                 /\ RowsOfPost(ab.votes, p) = {VoteRow(a, p, 1), VoteRow(b, p, -1)}
                 /\ RowsOfPost(ba.votes, p) = {VoteRow(a, p, 1), VoteRow(b, p, -1)}

\* C8 witness: two users hold opposite votes on a post whose score is 0,
\* while every user has a vote on another post.
C8_Witness ==
    /\ \E a \in Users, b \in Users, p \in posts :
          /\ RowsOfPost(votes, p) = {VoteRow(a, p, 1), VoteRow(b, p, -1)}
          /\ vote_count[p] = 0
    /\ \E q \in posts : \A u \in Users : ExistingVote(votes, u, q) # NoVote

\* C9: in every reachable state, submitVote with the value 2 by a registered
\* user on an existing post answers the validation error and leaves the
\* ledger and every score as they are, whatever the user's prior vote.
C9_InvalidValueRejected ==
    \A a \in Users, p \in posts :
        LET out == After(a, p, 2)
        IN /\ out.code = "INVALID_INPUT"
           /\ out.votes = votes
           /\ out.vote_count = vote_count

\* C9 witness: a state with a +1, a -1 and a missing vote, in which the value
\* 2 is refused from each of the three prior votes.
C9_Witness ==
    \E a \in Users, b \in Users, p \in posts, q \in posts :
        /\ ExistingVote(votes, a, p) = 1
        /\ ExistingVote(votes, b, p) = -1
        /\ ExistingVote(votes, a, q) = NoVote
        /\ After(a, p, 2).code = "INVALID_INPUT"
        /\ After(b, p, 2).code = "INVALID_INPUT"
        /\ After(a, q, 2).code = "INVALID_INPUT"

AllAnswered == \A t \in Procs : txn[t].pc \in {"idle", "done", "aborted"}

C3_OneVotePerUserPost ==
    \A u \in Users, p \in PostIds : Cardinality(RowsOf(votes, u, p)) <= 1

\* C3 witness: two requests of one user both found no existing vote; the
\* first committed its row, the INSERT of the second was refused.
C3_Witness ==
    \E s \in Procs, t \in Procs :
        /\ txn[s].pc = "done" /\ txn[s].code = "OK"
        /\ txn[t].pc = "done" /\ txn[t].code = "SERVER_ERROR"
        /\ votes # {}

InFlight(t) == txn[t].pc \in {"written", "counted"}

C13_StoredVotesNonZero ==
    /\ \A r \in votes : r.vote_type \in {-1, 1}
    /\ \A a \in Users, p \in PostIds :
          LET out == After(a, p, 0)
          IN /\ RowsOf(out.votes, a, p) = {}
             /\ \A r \in out.votes : r.vote_type \in {-1, 1}

\* C13 witness: the table holds a +1 and a -1, a user without a vote on an
\* existing post sends 0 and the table stays as it is, and a user with a vote
\* sends 0 and the row is gone.
C13_Witness ==
    /\ \E r \in votes : r.vote_type = 1
    /\ \E r \in votes : r.vote_type = -1
    /\ \E a \in Users, p \in posts :
          ExistingVote(votes, a, p) = NoVote /\ After(a, p, 0).votes = votes
    /\ \E a \in Users, p \in posts :
          /\ ExistingVote(votes, a, p) # NoVote
          /\ After(a, p, 0).votes = votes \ RowsOf(votes, a, p)

\* No row of votes or reports references a post that has no row.
NoDanglingRows(db) ==
    /\ \A r \in db.votes : r.post_id \in db.posts
    /\ \A r \in db.reports : r.post_id \in db.posts

\* C14: in every reachable state of the forum no vote row and no report row
\* references a post that does not exist, and the deletion of a post by its
\* owner removes the post with exactly the vote rows and the report rows that
\* reference it, leaving the rows of the other posts.
C14_PostDeleteCascades ==
    /\ NoDanglingRows(Db)
    /\ \A p \in posts :
          LET out == DeletePostEndpoint(Db, owner[p], p)
          IN /\ out.code = "OK"
             /\ out.db.posts = posts \ {p}
             /\ out.db.votes = {r \in votes : r.post_id # p}
             /\ out.db.reports = {r \in reports : r.post_id # p}
             /\ NoDanglingRows(out.db)

\* C14 witness: a post carries a vote and a report, and its deletion by the
\* owner removes both.
C14_Witness ==
    \E p \in posts :
        /\ RowsOfPost(votes, p) # {}
        /\ \E r \in reports : r.post_id = p
        /\ DeletePostEndpoint(Db, owner[p], p).db.votes # votes
        /\ DeletePostEndpoint(Db, owner[p], p).db.reports # reports

\* C15 as stated: in every reachable state of the forum, after the deletion
\* of a user no post of that user, no vote row of that user and no report row
\* that user submitted remains.
C15_UserDeleteRemovesAll ==
    \A u \in users :
        LET out == DeleteUserRow(Db, u)
        IN /\ \A p \in out.posts : out.owner[p] # u
           /\ \A r \in out.votes : r.user_id # u
           /\ \A r \in reports :
                 r.reporter_id = u => r.id \notin {x.id : x \in out.reports}

\* C16 as stated: in every reachable state of the forum, the deletion of a
\* topic that has posts succeeds, removes the topic, leaves no post with a
\* reference to it, and keeps every post with its votes and its score.
C16_TopicDeleteDetaches ==
    \A t \in topics :
        (\E p \in posts : topic_id[p] = t) =>
            LET out == DeleteTopicRow(Db, t)
            IN /\ out.ok
               /\ t \notin out.db.topics
               /\ \A p \in out.db.posts : out.db.topic_id[p] # t
               /\ out.db.posts = posts
               /\ out.db.votes = votes
               /\ out.db.vote_count = vote_count

\* C17: in every reachable state of the forum no (user, post) pair has more
\* than one report row; a report of a post the user has already reported
\* answers DUPLICATE_REPORT and changes no table; submitVote leaves the
\* reports as they are; and a report leaves the votes and the scores as they
\* are.
C17_OneReportPerUserPost ==
    /\ \A u \in Users, p \in PostIds : Cardinality(ReportsOf(reports, u, p)) <= 1
    /\ \A a \in users, p \in posts, reason \in Reasons :
          LET out == ReportEndpoint(Db, a, p, reason)
          IN IF ReportsOf(reports, a, p) # {}
             THEN out = Answer(Db, "DUPLICATE_REPORT")
             ELSE /\ out.code = "OK"
                  /\ Cardinality(out.db.reports) = Cardinality(reports) + 1
                  /\ Cardinality(ReportsOf(out.db.reports, a, p)) = 1
    /\ \A a \in Callers, p \in PostIds, v \in RequestValues :
          ForumVoteEndpoint(Db, a, p, v).db.reports = reports
    /\ \A a \in Callers, p \in PostIds, reason \in RequestReasons :
          LET out == ReportEndpoint(Db, a, p, reason)
          IN out.db.votes = votes /\ out.db.vote_count = vote_count

\* C17 witness: a user has reported a post that carries a vote of the same
\* user; the second report is refused as a duplicate, and a vote of the user
\* on the post succeeds and changes the score.
C17_Witness ==
    \E a \in users, p \in posts :
        /\ ReportsOf(reports, a, p) # {}
        /\ ExistingVote(votes, a, p) = 1
        /\ ReportEndpoint(Db, a, p, "spam").code = "DUPLICATE_REPORT"
        /\ ForumVoteEndpoint(Db, a, p, -1).code = "OK"
        /\ ForumVoteEndpoint(Db, a, p, -1).db.vote_count[p] = vote_count[p] - 2

\* A rejected request leaves every table as it is.
Rejected(out) == out.code # "OK" /\ out.db = Db

\* C18: in every reachable state of the forum, create-post, vote, report,
\* edit and delete of a visitor without an account are rejected with
\* UNAUTHORIZED; edit and delete of a post by an authenticated user who is
\* not its owner are rejected with FORBIDDEN, and by its owner they succeed;
\* and every rejected request leaves posts, votes, scores and reports as they
\* are.
C18_PermissionMatrix ==
    /\ \A p \in PostIds :
          /\ \A t \in Topics, c \in Contents :
                CreatePostEndpoint(Db, Anonymous, t, c) = Answer(Db, "UNAUTHORIZED")
          /\ \A v \in RequestValues :
                ForumVoteEndpoint(Db, Anonymous, p, v) = Answer(Db, "UNAUTHORIZED")
          /\ \A reason \in Reasons :
                ReportEndpoint(Db, Anonymous, p, reason) = Answer(Db, "UNAUTHORIZED")
          /\ \A c \in Contents :
                UpdatePostEndpoint(Db, Anonymous, p, c) = Answer(Db, "UNAUTHORIZED")
          /\ DeletePostEndpoint(Db, Anonymous, p) = Answer(Db, "UNAUTHORIZED")
    /\ \A a \in users, p \in posts, c \in Contents :
          IF a = owner[p]
          THEN /\ UpdatePostEndpoint(Db, a, p, c) = Answer([Db EXCEPT !.content[p] = c], "OK")
               /\ DeletePostEndpoint(Db, a, p).code = "OK"
               /\ p \notin DeletePostEndpoint(Db, a, p).db.posts
          ELSE /\ UpdatePostEndpoint(Db, a, p, c) = Answer(Db, "FORBIDDEN")
               /\ DeletePostEndpoint(Db, a, p) = Answer(Db, "FORBIDDEN")
    /\ \A a \in Callers, p \in PostIds :
          /\ \A t \in Topics \cup {NoTopic}, c \in Contents \cup {NoContent} :
                LET out == CreatePostEndpoint(Db, a, t, c)
                IN out.code = "OK" \/ Rejected(out)
          /\ \A v \in RequestValues :
                LET out == ForumVoteEndpoint(Db, a, p, v)
                IN out.code = "OK" \/ Rejected(out)
          /\ \A reason \in RequestReasons :
                LET out == ReportEndpoint(Db, a, p, reason)
                IN out.code = "OK" \/ Rejected(out)
          /\ \A c \in Contents \cup {NoContent} :
                LET out == UpdatePostEndpoint(Db, a, p, c)
                IN out.code = "OK" \/ Rejected(out)
          /\ LET out == DeletePostEndpoint(Db, a, p)
             IN out.code = "OK" \/ Rejected(out)

\* C18 witness: a post with a vote and a report on it, its owner and another
\* account: the other account's edit and delete are refused, the owner's edit
\* changes the text and the owner's delete removes the post.
C18_Witness ==
    \E a \in users, b \in users, p \in posts :
        /\ owner[p] = a /\ b # a
        /\ RowsOfPost(votes, p) # {}
        /\ \E r \in reports : r.post_id = p
        /\ UpdatePostEndpoint(Db, b, p, "edited text").code = "FORBIDDEN"
        /\ DeletePostEndpoint(Db, b, p).code = "FORBIDDEN"
        /\ UpdatePostEndpoint(Db, a, p, "edited text").db.content[p] # content[p]
        /\ DeletePostEndpoint(Db, a, p).db.posts # posts

\* The feed lists each post once.
FeedListsPosts ==
    /\ {feed.ids[i] : i \in DOMAIN feed.ids} = posts
    /\ Len(feed.ids) = Cardinality(posts)

\* C19 as stated: a feed returned for sort "new" or "top" lists each post
\* once, in descending creation time or descending score, and any two posts
\* of equal sort key in the order of their identifiers.
C19_RankTieBreakById ==
    feed.sort \in {"new", "top"} =>
        /\ FeedListsPosts
        /\ \A i, j \in DOMAIN feed.ids :
              i < j =>
                  LET p == feed.ids[i]
                      q == feed.ids[j]
                      kp == IF feed.sort = "new" THEN created_at[p] ELSE vote_count[p]
                      kq == IF feed.sort = "new" THEN created_at[q] ELSE vote_count[q]
                  IN kp > kq \/ (kp = kq /\ p < q)

\* The hot score of a post of score sp and age ap is at least that of a post
\* of score sq and age aq (ages in half hours): sp / (ap/2 + 2)^1.5 >=
\* sq / (aq/2 + 2)^1.5, compared on the squares, by the signs of the scores.
HotAtLeast(sp, ap, sq, aq) ==
    LET l == sp * sp * (aq + 4) * (aq + 4) * (aq + 4)
        r == sq * sq * (ap + 4) * (ap + 4) * (ap + 4)
    IN \/ sp >= 0 /\ sq < 0
       \/ sp >= 0 /\ sq >= 0 /\ l >= r
       \/ sp < 0 /\ sq < 0 /\ l <= r

\* The feed is in descending hot score as evaluated at time n.
HotOrderedAt(n) ==
    \A i, j \in DOMAIN feed.ids :
        i < j => HotAtLeast(vote_count[feed.ids[i]], n - created_at[feed.ids[i]],
                            vote_count[feed.ids[j]], n - created_at[feed.ids[j]])

\* C20 as stated: a feed returned for sort "hot" is in descending
\* score / (ageHours + 2)^1.5 with the age measured from the time the caller
\* takes as now, whatever time not before the creations that is.
C20_HotByCallerNow ==
    \A n \in Times :
        (feed.sort = "hot" /\ \A p \in posts : created_at[p] <= n) => HotOrderedAt(n)

\* C20 amended: a feed returned for sort "hot" lists each post once in
\* descending score / (ageHours + 2)^1.5, with ageHours the fraction of hours
\* between the post's creation and the server's clock at the request (the
\* request carries no time); a post of score 10 created at that moment stands
\* before a post of score 12 created 48 hours earlier.
C20_HotByServerClock ==
    feed.sort = "hot" =>
        /\ FeedListsPosts
        /\ HotOrderedAt(feed.at)
        /\ \A i, j \in DOMAIN feed.ids :
              ( /\ vote_count[feed.ids[i]] = 10 /\ feed.at - created_at[feed.ids[i]] = 0
                /\ vote_count[feed.ids[j]] = 12 /\ feed.at - created_at[feed.ids[j]] = 96 )
              => i < j

\* C20 witness: a hot feed, computed after the clock has advanced, of a post
\* of score 10 created at the request's time before a post of score 12
\* created 48 hours earlier.
C20_Witness ==
    /\ feed.sort = "hot"
    /\ Len(feed.ids) = 2
    /\ feed.at = now /\ now > 0
    /\ vote_count[feed.ids[1]] = 10 /\ feed.at - created_at[feed.ids[1]] = 0
    /\ vote_count[feed.ids[2]] = 12 /\ feed.at - created_at[feed.ids[2]] = 96

\* C21 as stated: with the triggers installed and the endpoint carrying out
\* its business logic as written, one request of a registered user on an
\* existing post changes vote_count once: by v for a first vote v, by -v for a
\* toggle-off or removal of a vote v, by -2v for a change from v to -v.
C21_CountChangesOnce ==
    \A a \in Users, p \in posts, r \in AcceptedValues :
        LET prior == ExistingVote(votes, a, p)
            out == LiteralVoteEndpoint(posts, votes, vote_count, a, p, r)
        IN out.code = "OK" =>
              out.vote_count[p] - vote_count[p] =
                  CASE prior = NoVote -> r
                    [] r = prior \/ r = 0 -> -prior
                    [] OTHER -> -2 * prior

\* The request of process t waits for a lock another request holds.
Blocked(t) ==
    \/ txn[t].pc = "found" /\ VoteRowLocked(t, txn[t].user, txn[t].post)
    \/ txn[t].pc = "written" /\ PostRowLocked(t, txn[t].post)

\* C22: in every reachable state of concurrent requests on several posts,
\* submitVote(a, p, v) on the committed tables changes no vote row other than
\* a's row on p and no score other than p's, and a request is blocked only
\* while a request on the same post is in flight: requests on different posts
\* never block one another.
C22_OnlyOwnRowAndPost ==
    /\ \A a \in Actors, p \in PostIds, v \in RequestValues :
          LET out == After(a, p, v)
          IN /\ \A q \in PostIds \ {p} :
                   /\ out.vote_count[q] = vote_count[q]
                   /\ RowsOfPost(out.votes, q) = RowsOfPost(votes, q)
             /\ \A b \in Users \ {a} : RowsOf(out.votes, b, p) = RowsOf(votes, b, p)
    /\ \A t \in Procs :
          Blocked(t) => \E s \in Procs \ {t} : InFlight(s) /\ txn[s].post = txn[t].post

\* C22 witness: two requests on different posts have both written their row
\* and updated the score of their post, and neither has committed.
C22_Witness ==
    \E s \in Procs, t \in Procs :
        /\ txn[s].pc = "counted" /\ txn[t].pc = "counted"
        /\ txn[s].post # txn[t].post
        /\ ~Blocked(s) /\ ~Blocked(t)

\* C23: updated_at records the last edit: a PUT by someone other than the
\* owner leaves it as it is, and so does a submitVote by any actor on any post.
C23_VoteKeepsUpdatedAt ==
    /\ \A a \in Callers, p \in PostIds, c \in Contents :
          a # owner[p] => UpdatedAtAfterEdit(Db, updated_at, a, p, c, now) = updated_at
    /\ \A a \in Actors, p \in PostIds, v \in RequestValues :
          UpdatedAtAfterVote(posts, votes, updated_at, a, p, v, now) = updated_at

C25_UpvoteClickRecordsUpvote ==
    \A b \in Tabs, p \in posts :
        user_vote[b][p] # 1 =>
            LET out == VoteEndpoint(posts, votes, vote_count, Viewer, p,
                                    UpvoteClick(user_vote[b][p]))
            IN out.code = "OK" => ExistingVote(out.votes, Viewer, p) = 1

\* C26: in every reachable state of AuthProvider, user is non-null only if a
\* token is stored; in particular user is null after logout() until the next
\* login().
C26_UserOnlyWithToken == user # JsNull => token # NoToken

\* C27: after mount loading eventually becomes false on every path, and once
\* false it never becomes true again.
C27_LoadingEnds ==
    /\ <>(loading = FALSE)
    /\ [][loading = FALSE => loading' = FALSE]_vars

\* C27 witness: the fetch was started and got no response, and loading is
\* false.
C27_Witness ==
    /\ me.pc = "settled"
    /\ me.body = "network error"
    /\ loading = FALSE

\* C28: at most one timeout is pending, the one set when the query last
\* changed; and a navigation happens only when the query has been unchanged
\* for 300 ms and has at least 2 characters, goes to /search?q= followed by
\* the query as it is now, and leaves no timeout pending.
C28_DebouncedNavigation ==
    /\ [](\A t \in timer : t.q = query /\ t.left = DebounceMs - idle)
    /\ [][route' # route =>
            /\ idle >= DebounceMs
            /\ Len(query) >= MinQueryLength
            /\ route' = Append(route, SearchUrl(query))
            /\ timer' = {}]_vars

\* C28 witness: two pauses in typing have led to two navigations with
\* different queries, the second the query as it is now, with keystrokes
\* in between that led to none.
C28_Witness ==
    /\ Len(route) = 2
    /\ route[1] # route[2]
    /\ route[2] = SearchUrl(query)
    /\ timer = {}

\* C29: when a client has read the pages at offsets 0, limit, 2*limit, ...
\* until has_more was false, it has received every post exactly once; and
\* after each page has_more tells whether fewer posts than total have been
\* received.
C29_PagesCoverOnce ==
    /\ (pager.sort # "none" /\ ~pager.has_more) =>
          /\ Len(pager.ids) = Cardinality(posts)
          /\ {pager.ids[i] : i \in DOMAIN pager.ids} = posts
    /\ (pager.sort # "none" /\ pager.offset > 0) =>
          pager.has_more = (Len(pager.ids) < pager.total)

====
